---- MODULE Spec2Model ----
(***************************************************************************)
(* A model of scripts/solvers.py: the GradientDescent and LassoISTA        *)
(* solvers, their iteration loops, convergence checks and status output,   *)
(* and the soft threshold function of ISTA.                                *)
(*                                                                         *)
(* Numbers are exact rationals [n |-> numerator, d |-> denominator > 0] in *)
(* lowest terms.  Every input drawn below is a dyadic rational of small    *)
(* magnitude and every rho is a power of two, so the IEEE double           *)
(* arithmetic of numpy yields exactly these values on these inputs.        *)
(* Arrays carry their number of dimensions: [ndim |-> 1, v |-> <<..>>] is  *)
(* a vector, [ndim |-> 2, v |-> << <<..>>, .. >>] a matrix of rows.        *)
(***************************************************************************)
EXTENDS Integers, Sequences, FiniteSets, TLC

VARIABLES
    self,       \* the solver instance: its attributes as set by __init__
    self0,      \* the attributes as they were right after construction
    pc,         \* "idle" | "loop" | "done": position of the current solve call
    X, y,       \* arguments of the current solve call
    w,          \* local w (GradientDescent) / w_t (LassoISTA)
    w_new,      \* local w_new of the loop body
    w_old,      \* the value w had when the last loop body started
    it,         \* number of loop bodies started in the current call
    lr,         \* local lr of GradientDescent.solve
    auto_lr,    \* whether auto_learning_rate_se(X) was called in this call
    rho,        \* local rho of LassoISTA.solve
    threshold,  \* local threshold of LassoISTA.solve
    out,        \* lines printed by the current call
    ret,        \* value returned by the current call
    hist,       \* the (X, y, ret, out) of every completed call on the instance
    ncalls,     \* number of solve calls started on the instance
    st_lw, st_threshold, st_res   \* a direct call of _soft_threashold

vars == <<self, self0, pc, X, y, w, w_new, w_old, it, lr, auto_lr, rho,
          threshold, out, ret, hist, ncalls, st_lw, st_threshold, st_res>>

solveVars == <<self, self0, pc, X, y, w, w_new, w_old, it, lr, auto_lr, rho,
               threshold, out, ret, hist, ncalls>>

stVars == <<st_lw, st_threshold, st_res>>

\* ---------------------------------------------------------------- bounds

MaxIter == 3

MaxCalls == 2

MaxLwLen == 2

\* ------------------------------------------------------------- rationals

\* Each operation binds its operands once (a quantifier over a singleton), so
\* that an operand is evaluated once however often its value is used.

IAbs(a) == CHOOSE r \in {IF p < 0 THEN -p ELSE p : p \in {a}} : TRUE

RECURSIVE GCD(_, _)
GCD(a, b) ==
    CHOOSE r \in {IF q = 0 THEN p ELSE GCD(q, p % q) : p \in {a}, q \in {b}} :
        TRUE

Rat(n, d) ==
    CHOOSE r \in
      { LET g == GCD(IAbs(p), IAbs(q))
            s == IF q < 0 THEN -1 ELSE 1
        IN  [n |-> s * (p \div g), d |-> s * (q \div g)]
        : p \in {n}, q \in {d} } : TRUE

I(k) == [n |-> k, d |-> 1]

None == [n |-> 0, d |-> 0]

RAdd(a, b) ==
    CHOOSE r \in {Rat(p.n * q.d + q.n * p.d, p.d * q.d) : p \in {a}, q \in {b}} :
        TRUE

RNeg(a) == CHOOSE r \in {[n |-> -p.n, d |-> p.d] : p \in {a}} : TRUE

RSub(a, b) == RAdd(a, RNeg(b))

RMul(a, b) ==
    CHOOSE r \in {Rat(p.n * q.n, p.d * q.d) : p \in {a}, q \in {b}} : TRUE

RDiv(a, b) ==
    CHOOSE r \in {Rat(p.n * q.d, p.d * q.n) : p \in {a}, q \in {b}} : TRUE

RAbs(a) == CHOOSE r \in {[n |-> IAbs(p.n), d |-> p.d] : p \in {a}} : TRUE

RLt(a, b) == \E p \in {a} : \E q \in {b} : p.n * q.d < q.n * p.d

RLe(a, b) == \E p \in {a} : \E q \in {b} : p.n * q.d <= q.n * p.d

RMax(a, b) ==
    CHOOSE r \in {IF RLt(p, q) THEN q ELSE p : p \in {a}, q \in {b}} : TRUE

RSign(a) ==
    CHOOSE r \in
      {IF p.n > 0 THEN I(1) ELSE IF p.n < 0 THEN I(-1) ELSE I(0) : p \in {a}} :
        TRUE

\* ---------------------------------------------------------------- arrays

Vec(s) == [ndim |-> 1, v |-> s]

Mat(s) == [ndim |-> 2, v |-> s]

NoArr == [ndim |-> 0, v |-> <<>>]

Shape(a) ==
    IF a.ndim = 1 THEN <<Len(a.v)>>
    ELSE IF a.ndim = 2 THEN <<Len(a.v), Len(a.v[1])>>
    ELSE <<>>

\* The array operations bind their operands once too, and build their result
\* as a tuple.
Tup(f) == f \o <<>>

Rows(f) == Tup([i \in DOMAIN f |-> Tup(f[i])])

\* elementwise unary and binary operations on arrays of equal shape
Map1(Op(_), a) ==
    CHOOSE r \in
      { IF p.ndim = 1
        THEN Vec(Tup([i \in 1..Len(p.v) |-> Op(p.v[i])]))
        ELSE Mat(Rows([i \in 1..Len(p.v) |->
                         [j \in 1..Len(p.v[i]) |-> Op(p.v[i][j])]]))
        : p \in {a} } : TRUE

Map2(Op(_, _), a, b) ==
    CHOOSE r \in
      { IF p.ndim = 1
        THEN Vec(Tup([i \in 1..Len(p.v) |-> Op(p.v[i], q.v[i])]))
        ELSE Mat(Rows([i \in 1..Len(p.v) |->
                         [j \in 1..Len(p.v[i]) |-> Op(p.v[i][j], q.v[i][j])]]))
        : p \in {a}, q \in {b} } : TRUE

Elements(a) ==
    UNION { IF p.ndim = 1 THEN {p.v[i] : i \in 1..Len(p.v)}
            ELSE {p.v[i][j] : i \in 1..Len(p.v), j \in 1..Len(p.v[1])}
            : p \in {a} }

RECURSIVE RSum(_, _)
RSum(f, k) == IF k = 0 THEN I(0) ELSE RAdd(RSum(f, k - 1), f[k])

Transpose(A) ==
    CHOOSE r \in
      { Mat(Rows([j \in 1..Len(P.v[1]) |->
                    [i \in 1..Len(P.v) |-> P.v[i][j]]]))
        : P \in {A} } : TRUE

\* np.dot(A, b) / A @ b for a matrix A and a vector or matrix b
Dot(A, b) ==
    CHOOSE r \in
      { LET n == Len(P.v)
            m == Len(P.v[1])
        IN  IF q.ndim = 1
            THEN Vec(Tup([i \in 1..n |->
                    RSum([k \in 1..m |-> RMul(P.v[i][k], q.v[k])], m)]))
            ELSE Mat(Rows([i \in 1..n |-> [j \in 1..Len(q.v[1]) |->
                    RSum([k \in 1..m |-> RMul(P.v[i][k], q.v[k][j])], m)]]))
        : P \in {A}, q \in {b} } : TRUE

Scale(c, a) == Map1(LAMBDA e : RMul(c, e), a)

Sub(a, b) == Map2(RSub, a, b)

Add(a, b) == Map2(RAdd, a, b)

\* ------------------------------------------------- imported collaborators

\* scripts.weight_initialisation.initialise_zero(n_features[, n_classes])
initialise_zero1(n_features) == Vec([i \in 1..n_features |-> I(0)])

initialise_zero2(n_features, n_classes) ==
    Mat([i \in 1..n_features |-> [j \in 1..n_classes |-> I(0)]])

\* scripts.util.supremum_eigen: the Gershgorin bound on the eigenvalues, the
\* largest absolute column sum.  On the matrices drawn below (X^T X is
\* diagonal) it equals the largest eigenvalue.
supremum_eigen(A) ==
    LET n == Len(A.v)
        colsum(j) == RSum([i \in 1..n |-> RAbs(A.v[i][j])], n)
    IN  CHOOSE s \in {colsum(j) : j \in 1..Len(A.v[1])} :
            \A j \in 1..Len(A.v[1]) : RLe(colsum(j), s)

\* scripts.hyperparameter_optimisation.auto_learning_rate_se
auto_learning_rate_se(Xin) ==
    RDiv(I(1), supremum_eigen(Dot(Transpose(Xin), Xin)))

\* Identity activation, SquareError.gradient, L2Regularization.gradient
Identity(z) == z

SquareError_gradient(yin, y_pred) == Sub(y_pred, yin)

L2_gradient(alpha, win) == Scale(alpha, win)

\* ------------------------------------------------------ solver instances

\* GradientDescent.__init__ (LeastSquareGD wires Identity and SquareError)
GradientDescent(alpha, max_iterations, tol, learning_rate) ==
    [kind |-> "GradientDescent", max_iterations |-> max_iterations,
     tol |-> tol, learning_rate |-> learning_rate,
     activation |-> "Identity", loss |-> "SquareError", l2 |-> alpha]

\* LassoISTA.__init__
LassoISTA(alpha, max_iterations, tol) ==
    [kind |-> "LassoISTA", alpha |-> alpha,
     max_iterations |-> max_iterations, tol |-> tol]

GDAlphas == {I(-1), I(0), I(1)}

LassoAlphas == {I(-1), I(0), Rat(1, 2), I(1)}

Tols == {I(0), Rat(1, 4)}

LearningRates == {None, I(0), Rat(1, 8)}

Solvers ==
    {GradientDescent(a, m, t, l) :
        a \in GDAlphas, m \in 1..MaxIter, t \in Tols, l \in LearningRates}
    \cup
    {LassoISTA(a, m, t) : a \in LassoAlphas, m \in 1..MaxIter, t \in Tols}

\* ------------------------------------------------------------ the inputs

IM(rows) == Mat([i \in 1..Len(rows) |->
                   [j \in 1..Len(rows[i]) |-> I(rows[i][j])]])

IV(s) == Vec([i \in 1..Len(s) |-> I(s[i])])

XTall == IM(<< <<1, 0>>, <<0, 2>>, <<0, 0>> >>)

XSquare == IM(<< <<2, 0>>, <<0, 2>> >>)

\* (X, y) pairs with matching n_samples and a vector y
VectorInputs ==
    { <<XTall, IV(<<1, 1, 0>>)>>, <<XTall, IV(<<1, 0, 0>>)>>,
      <<XSquare, IV(<<1, 1>>)>> }

\* a one-hot y of shape (n, k): multi class classification
OneHotInputs == { <<XSquare, IM(<< <<1, 0>>, <<0, 1>> >>)>> }

\* ----------------------------------------------------- pieces of solve()

\* truth value of a Python number or None
Truthy(v) == v /= None /\ v.n /= 0

\* for _ in range(self.max_iterations)
LoopCond_Unbounded == it <= self.max_iterations

LoopCond == it < self.max_iterations

\* (np.abs(w_new - w) < self.tol).all()
Converged_Any(wn, wo, tol) ==
    \E e \in Elements(Map1(RAbs, Sub(wn, wo))) : RLt(e, tol)

Converged_LE(wn, wo, tol) ==
    \A e \in Elements(Map1(RAbs, Sub(wn, wo))) : RLe(e, tol)

Converged(wn, wo, tol) ==
    \A e \in Elements(Map1(RAbs, Sub(wn, wo))) : RLt(e, tol)

ConvergedMsg == "Converged."

NotConvergedMsg_Swapped == "Converged."

NotConvergedMsg == "Not converged."

\* lr = self.learning_rate if self.learning_rate else auto_learning_rate_se(X)
GD_UsesGiven == Truthy(self.learning_rate)

GD_lr(Xin) ==
    IF GD_UsesGiven THEN self.learning_rate ELSE auto_learning_rate_se(Xin)

\* initialise the weights as zero
GD_InitW_Vector(Xin, yin) == initialise_zero1(Len(Xin.v[1]))

GD_InitW_Resume(Xin, yin) ==
    IF ret /= NoArr /\ ret.ndim = yin.ndim
    THEN ret
    ELSE IF yin.ndim > 1
         THEN initialise_zero2(Len(Xin.v[1]), Len(yin.v[1]))
         ELSE initialise_zero1(Len(Xin.v[1]))

GD_InitW(Xin, yin) ==
    IF yin.ndim > 1
    THEN initialise_zero2(Len(Xin.v[1]), Len(yin.v[1]))
    ELSE initialise_zero1(Len(Xin.v[1]))

\* y_pred, grad_w and w_new of one loop body
GD_Step(Xin, yin, rate, alpha, win) ==
    LET y_pred == Identity(Dot(Xin, win))
        grad_w == Add(Dot(Transpose(Xin), SquareError_gradient(yin, y_pred)),
                      L2_gradient(alpha, win))
    IN  Sub(win, Scale(rate, grad_w))

GD_Update(win) == GD_Step(X, y, lr, self.l2, win)

\* threshold = n_samples * self.alpha / rho
ISTA_threshold_NoSamples(n_samples, alpha, r) == RDiv(alpha, r)

ISTA_threshold(n_samples, alpha, r) == RDiv(RMul(I(n_samples), alpha), r)

\* np.sign(lw) * np.maximum(np.abs(lw) - threshold, 0.0)
soft_threashold_NoSign(lw, th) ==
    Map1(LAMBDA e : RMax(RSub(RAbs(e), th), I(0)), lw)

soft_threashold(lw, th) ==
    Map1(LAMBDA e : RMul(RSign(e), RMax(RSub(RAbs(e), th), I(0))), lw)

\* dl_dw and w_new of one loop body
ISTA_Step(Xin, yin, r, th, win) ==
    LET dl_dw == Scale(I(-1), Dot(Transpose(Xin), Sub(yin, Dot(Xin, win))))
    IN  soft_threashold(Sub(win, Scale(RDiv(I(1), r), dl_dw)), th)

ISTA_Update(win) == ISTA_Step(X, y, rho, threshold, win)

Completed(r, o) == [X |-> X, y |-> y, ret |-> r, out |-> o]

\* ----------------------------------------------------------------- Init

NoSoftCall == st_lw = NoArr /\ st_threshold = None /\ st_res = NoArr

Init ==
    /\ self \in Solvers
    /\ self0 = self
    /\ pc = "idle"
    /\ X = NoArr /\ y = NoArr
    /\ w = NoArr /\ w_new = NoArr /\ w_old = NoArr
    /\ it = 0
    /\ lr = None /\ auto_lr = FALSE
    /\ rho = None /\ threshold = None
    /\ out = <<>> /\ ret = NoArr
    /\ hist = {}
    /\ ncalls = 0
    /\ NoSoftCall

\* --------------------------------------------------- GradientDescent.solve

GD_solve(Xin, yin) ==
    /\ self.kind = "GradientDescent"
    /\ pc \in {"idle", "done"}
    /\ ncalls < MaxCalls
    /\ ncalls' = ncalls + 1
    /\ X' = Xin /\ y' = yin
    /\ lr' = GD_lr(Xin)
    /\ auto_lr' = ~GD_UsesGiven
    /\ w' = GD_InitW(Xin, yin)
    /\ w_new' = NoArr /\ w_old' = NoArr
    /\ it' = 0
    /\ out' = <<>> /\ ret' = NoArr
    /\ pc' = "loop"
    /\ UNCHANGED <<self, self0, rho, threshold, hist, stVars>>

GD_body ==
    /\ self.kind = "GradientDescent"
    /\ pc = "loop"
    /\ LoopCond
    /\ it' = it + 1
    /\ w_old' = w
    /\ LET wn == GD_Update(w)
       IN  /\ w_new' = wn
           /\ IF Converged(wn, w, self.tol)
              THEN /\ out' = Append(out, ConvergedMsg)
                   /\ ret' = wn
                   /\ pc' = "done"
                   /\ hist' = hist \cup
                         {Completed(wn, Append(out, ConvergedMsg))}
                   /\ w' = w
              ELSE /\ w' = wn
                   /\ UNCHANGED <<out, ret, pc, hist>>
    /\ UNCHANGED <<self, self0, X, y, lr, auto_lr, rho, threshold, ncalls,
                   stVars>>

GD_exhausted ==
    /\ self.kind = "GradientDescent"
    /\ pc = "loop"
    /\ ~LoopCond
    /\ out' = Append(out, NotConvergedMsg)
    /\ ret' = w
    /\ pc' = "done"
    /\ hist' = hist \cup {Completed(w, Append(out, NotConvergedMsg))}
    /\ UNCHANGED <<self, self0, X, y, w, w_new, w_old, it, lr, auto_lr, rho,
                   threshold, ncalls, stVars>>

\* --------------------------------------------------------- LassoISTA.solve

ISTA_solve(Xin, yin) ==
    /\ self.kind = "LassoISTA"
    /\ pc \in {"idle", "done"}
    /\ ncalls < MaxCalls
    /\ ncalls' = ncalls + 1
    /\ X' = Xin /\ y' = yin
    /\ w' = initialise_zero1(Len(Xin.v[1]))
    /\ LET r == supremum_eigen(Dot(Transpose(Xin), Xin))
       IN  /\ rho' = r
           /\ threshold' = ISTA_threshold(Len(Xin.v), self.alpha, r)
    /\ w_new' = NoArr /\ w_old' = NoArr
    /\ it' = 0
    /\ out' = <<>> /\ ret' = NoArr
    /\ pc' = "loop"
    /\ UNCHANGED <<self, self0, lr, auto_lr, hist, stVars>>

ISTA_body ==
    /\ self.kind = "LassoISTA"
    /\ pc = "loop"
    /\ LoopCond
    /\ it' = it + 1
    /\ w_old' = w
    /\ LET wn == ISTA_Update(w)
       IN  /\ w_new' = wn
           /\ IF Converged(wn, w, self.tol)
              THEN /\ out' = Append(out, ConvergedMsg)
                   /\ ret' = wn
                   /\ pc' = "done"
                   /\ hist' = hist \cup
                         {Completed(wn, Append(out, ConvergedMsg))}
                   /\ w' = w
              ELSE /\ w' = wn
                   /\ UNCHANGED <<out, ret, pc, hist>>
    /\ UNCHANGED <<self, self0, X, y, lr, auto_lr, rho, threshold, ncalls,
                   stVars>>

ISTA_exhausted ==
    /\ self.kind = "LassoISTA"
    /\ pc = "loop"
    /\ ~LoopCond
    /\ out' = Append(out, NotConvergedMsg)
    /\ ret' = w
    /\ pc' = "done"
    /\ hist' = hist \cup {Completed(w, Append(out, NotConvergedMsg))}
    /\ UNCHANGED <<self, self0, X, y, w, w_new, w_old, it, lr, auto_lr, rho,
                   threshold, ncalls, stVars>>

LoopStep == GD_body \/ GD_exhausted \/ ISTA_body \/ ISTA_exhausted

Next ==
    \/ \E p \in VectorInputs \cup OneHotInputs : GD_solve(p[1], p[2])
    \/ GD_body
    \/ GD_exhausted
    \/ \E p \in VectorInputs : ISTA_solve(p[1], p[2])
    \/ ISTA_body
    \/ ISTA_exhausted

Spec == Init /\ [][Next]_vars

\* the loop of a call that has started is never suspended
FairSpec == Spec /\ WF_vars(LoopStep)

\* ------------------------------------- LassoISTA._soft_threashold alone

SoftVals == {Rat(-5, 1), Rat(-1, 1), Rat(-1, 2), I(0), Rat(1, 2), I(1), I(5)}

SoftExample == Vec(<<I(-5), Rat(-1, 2), I(0), Rat(1, 2), I(5)>>)

SoftInputs ==
    {SoftExample} \cup
    UNION {{Vec(s) : s \in [1..k -> SoftVals]} : k \in 1..MaxLwLen}

SoftThresholds == {I(-1), I(0), Rat(1, 2), I(1), I(5)}

InitST ==
    /\ self = LassoISTA(I(1), 1, I(0))
    /\ self0 = self
    /\ pc = "idle"
    /\ X = NoArr /\ y = NoArr
    /\ w = NoArr /\ w_new = NoArr /\ w_old = NoArr
    /\ it = 0
    /\ lr = None /\ auto_lr = FALSE
    /\ rho = None /\ threshold = None
    /\ out = <<>> /\ ret = NoArr
    /\ hist = {}
    /\ ncalls = 0
    /\ st_lw \in SoftInputs
    /\ st_threshold \in SoftThresholds
    /\ st_res = NoArr

SoftCall ==
    /\ st_lw /= NoArr
    /\ st_res = NoArr
    /\ st_res' = soft_threashold(st_lw, st_threshold)
    /\ UNCHANGED <<solveVars, st_lw, st_threshold>>

NextST == SoftCall

SpecST == InitST /\ [][NextST]_vars

\* ================================================================ claims

\* componentwise |a[i] - b[i]| < t for every component, written out
DeltaBelowAt(a, b, t, i, j) ==
    IF a.ndim = 1
    THEN RLt(RAbs(RSub(a.v[i], b.v[i])), t)
    ELSE RLt(RAbs(RSub(a.v[i][j], b.v[i][j])), t)

Indices(a) ==
    IF a.ndim = 1 THEN {<<i, 1>> : i \in 1..Len(a.v)}
    ELSE (1..Len(a.v)) \X (1..Len(a.v[1]))

EveryBelow(a, b, t) ==
    \A ix \in Indices(a) : DeltaBelowAt(a, b, t, ix[1], ix[2])

SomeBelow(a, b, t) ==
    \E ix \in Indices(a) : DeltaBelowAt(a, b, t, ix[1], ix[2])

BodyRan == w_new /= NoArr

AllZero(a) == a /= NoArr /\ Elements(a) = {I(0)}

SolverAlpha == IF self.kind = "GradientDescent" THEN self.l2 ELSE self.alpha

\* C1: after a loop body, the early exit was taken (the call is done with
\* 'Converged.' and returned w_new) if and only if every component of
\* |w_new - w| is strictly below tol; if some component is not, the loop went
\* on with w := w_new.
C1_ExitIffEveryComponentBelow ==
    BodyRan =>
        /\ EveryBelow(w_new, w_old, self.tol) =>
              /\ pc = "done"
              /\ out = <<"Converged.">>
              /\ ret = w_new
        /\ ~EveryBelow(w_new, w_old, self.tol) =>
              /\ w = w_new
              /\ out /= <<"Converged.">>
              /\ pc = "loop" \/ (pc = "done" /\ it = self.max_iterations)

\* some component is within tol, another is not, and the loop went on
C1_Witness ==
    /\ BodyRan
    /\ pc = "loop"
    /\ SomeBelow(w_new, w_old, self.tol)
    /\ ~EveryBelow(w_new, w_old, self.tol)
    /\ w = w_new

\* C2: a solve call terminates: the loop body runs at most max_iterations
\* times, a call in its loop eventually is done, and a call that is done has
\* returned a weight array.
C2_SolveTerminates ==
    /\ [](it <= self.max_iterations)
    /\ [](pc = "done" => ret.ndim \in {1, 2})
    /\ (pc = "loop") ~> (pc = "done")

C2_Witness ==
    /\ pc = "done"
    /\ it = self.max_iterations
    /\ self.max_iterations = MaxIter
    /\ ret.ndim = 1

\* C3: a call prints nothing while it loops and exactly one line when done:
\* 'Converged.' exactly when the last body's check succeeded, 'Not converged.'
\* exactly when max_iterations bodies ran and none succeeded, and then the
\* value returned is the w_new of the last body.
C3_SoftNonConvergence ==
    /\ pc = "loop" => out = <<>>
    /\ pc = "done" =>
          /\ Len(out) = 1
          /\ out[1] \in {"Converged.", "Not converged."}
          /\ BodyRan
          /\ out[1] = "Converged." <=> EveryBelow(w_new, w_old, self.tol)
          /\ out[1] = "Not converged." <=>
                (it = self.max_iterations
                   /\ ~EveryBelow(w_new, w_old, self.tol))
          /\ out[1] = "Not converged." => ret = w_new

C3_Witness ==
    /\ pc = "done"
    /\ self.max_iterations = 1
    /\ out = <<"Not converged.">>
    /\ ret = w_new
    /\ ~AllZero(ret)

\* C4: with a negative alpha no solve call gets past its precondition check:
\* it never enters the loop and never returns a weight array.
C4_NegativeAlphaRejected ==
    SolverAlpha.n < 0 => (pc = "idle" /\ ret = NoArr)

\* what a call on a freshly constructed instance returns and prints for
\* (Xin, yin): the loop run from the all-zero weights with the attributes of
\* construction
FreshStep(Xin, yin, win) ==
    IF self0.kind = "GradientDescent"
    THEN GD_Step(Xin, yin,
                 IF self0.learning_rate /= None /\ self0.learning_rate.n /= 0
                 THEN self0.learning_rate
                 ELSE auto_learning_rate_se(Xin),
                 self0.l2, win)
    ELSE LET r == supremum_eigen(Dot(Transpose(Xin), Xin))
         IN  ISTA_Step(Xin, yin, r,
                       RDiv(RMul(I(Len(Xin.v)), self0.alpha), r), win)

RECURSIVE FreshRun(_, _, _, _)
FreshRun(Xin, yin, win, k) ==
    IF k = self0.max_iterations
    THEN [X |-> Xin, y |-> yin, ret |-> win, out |-> <<"Not converged.">>]
    ELSE CHOOSE res \in
           { IF EveryBelow(wn, win, self0.tol)
             THEN [X |-> Xin, y |-> yin, ret |-> wn, out |-> <<"Converged.">>]
             ELSE FreshRun(Xin, yin, wn, k + 1)
             : wn \in {FreshStep(Xin, yin, win)} } : TRUE

FreshZero(Xin, yin) ==
    IF yin.ndim = 2
    THEN Mat([i \in 1..Len(Xin.v[1]) |-> [j \in 1..Len(yin.v[1]) |-> I(0)]])
    ELSE Vec([i \in 1..Len(Xin.v[1]) |-> I(0)])

\* C5: the instance is stateless between calls: its attributes stay as
\* constructed, every call starts from the all-zero weights, and every
\* completed call returned and printed what a call with the same (X, y) on a
\* fresh instance does, whatever calls preceded it (so calls with identical
\* inputs agree).
C5_StatelessBetweenCalls ==
    /\ self = self0
    /\ (pc = "loop" /\ it = 0) => AllZero(w)
    /\ \A h \in hist : h = FreshRun(h.X, h.y, FreshZero(h.X, h.y), 0)
    /\ \A a \in hist : \A b \in hist :
          (a.X = b.X /\ a.y = b.y) => (a.ret = b.ret /\ a.out = b.out)

\* a second call with the inputs of the first has completed, with non-zero
\* weights
C5_Witness ==
    /\ ncalls = 2
    /\ pc = "done"
    /\ Cardinality(hist) = 1
    /\ ~AllZero(ret)

\* C6: for a threshold >= 0 every component of the result is 0 when
\* |lw[i]| <= threshold, lw[i] - threshold when lw[i] > threshold and
\* lw[i] + threshold when lw[i] < -threshold; the example of the docstring
\* gives [-4, 0, 0, 0, 4]; a non-zero output has the sign of its input and no
\* output is larger in magnitude than its input.
C6_SoftThreshold ==
    (st_res /= NoArr /\ RLe(I(0), st_threshold)) =>
        /\ Shape(st_res) = Shape(st_lw)
        /\ \A i \in 1..Len(st_lw.v) :
              LET l == st_lw.v[i]
                  r == st_res.v[i]
                  t == st_threshold
              IN  /\ RLe(RAbs(l), t) => r = I(0)
                  /\ RLt(t, l) => r = RSub(l, t)
                  /\ RLt(l, RNeg(t)) => r = RAdd(l, t)
                  /\ r /= I(0) => RSign(r) = RSign(l)
                  /\ RLe(RAbs(r), RAbs(l))
        /\ (st_lw = SoftExample /\ st_threshold = I(1)) =>
              st_res = Vec(<<I(-4), I(0), I(0), I(0), I(4)>>)

C6_Witness ==
    /\ st_lw = SoftExample
    /\ st_threshold = I(1)
    /\ st_res = Vec(<<I(-4), I(0), I(0), I(0), I(4)>>)

\* C7: when n_samples * alpha / rho is at least every component magnitude of
\* X^T y / rho, every iterate of LassoISTA.solve is the zero vector and the
\* value returned, on either path, is the zero vector of length n_features.
C7_LargeAlphaGivesZero ==
    (self.kind = "LassoISTA" /\ pc /= "idle") =>
        LET first == Scale(RDiv(I(1), rho), Dot(Transpose(X), y))
            th == RDiv(RMul(I(Len(X.v)), self.alpha), rho)
        IN  (\A e \in Elements(first) : RLe(RAbs(e), th)) =>
               /\ AllZero(w)
               /\ BodyRan => AllZero(w_new)
               /\ pc = "done" =>
                     (AllZero(ret) /\ Shape(ret) = <<Len(X.v[1])>>)

\* a call with a positive alpha and a non-zero X^T y returned the zero vector
C7_Witness ==
    /\ self.kind = "LassoISTA"
    /\ pc = "done"
    /\ self.alpha.n > 0
    /\ ~AllZero(Dot(Transpose(X), y))
    /\ AllZero(ret)

\* C8: in GradientDescent.solve the weights, and the value returned on
\* either path, have shape (d, k) for a y of shape (n, k) and (d,) for a y of
\* shape (n,), d the number of columns of X.
C8_ShapeFollowsY ==
    (self.kind = "GradientDescent" /\ pc /= "idle") =>
        LET expected == IF y.ndim = 2
                        THEN <<Len(X.v[1]), Len(y.v[1])>>
                        ELSE <<Len(X.v[1])>>
        IN  /\ Shape(w) = expected
            /\ pc = "done" => Shape(ret) = expected

C8_Witness ==
    /\ self.kind = "GradientDescent"
    /\ pc = "done"
    /\ y.ndim = 2
    /\ Shape(ret) = <<2, 2>>
    /\ out = <<"Converged.">>

\* C9: the step size is the caller's learning_rate whenever one was given
\* (any number, 0 included), and auto_learning_rate_se(X) is called only when
\* learning_rate is None.
C9_GivenLearningRateUsed ==
    (self.kind = "GradientDescent" /\ pc /= "idle") =>
        /\ self.learning_rate /= None =>
              (lr = self.learning_rate /\ ~auto_lr)
        /\ self.learning_rate = None => auto_lr

\* C10: with tol = 0 a call always runs max_iterations bodies and prints
\* 'Not converged.'; with tol > 0 a body that leaves w unchanged (w_new = w)
\* ends the call there with 'Converged.'.
C10_ZeroTolNeverConverges ==
    /\ (self.tol = I(0) /\ pc = "done") =>
          (out = <<"Not converged.">> /\ it = self.max_iterations)
    /\ (RLt(I(0), self.tol) /\ BodyRan /\ w_new = w_old) =>
          (pc = "done" /\ out = <<"Converged.">> /\ ret = w_new)

\* tol = 0, an exact fixed point was reached, and the call reported
\* non-convergence after max_iterations bodies
C10_Witness ==
    /\ self.tol = I(0)
    /\ pc = "done"
    /\ w_new = w_old
    /\ out = <<"Not converged.">>
    /\ it = self.max_iterations

====
